---- MODULE Spec2Model ----
(***************************************************************************)
(* Model of the aruco ROS node (src/aruco/src/ros/ArucoNode.cpp): the      *)
(* globals of the node, main() as the initial state, and the four          *)
(* subscription callbacks onFrame, onCameraInfo, onMarkerRegister and      *)
(* onMarkerRemove as actions.                                              *)
(*                                                                         *)
(* Numbers that the node keeps as double are integers here: they are only  *)
(* stored, negated, permuted and compared.  Strings are sequences of       *)
(* one-character strings so that find/substr/erase can be computed.        *)
(***************************************************************************)
EXTENDS Integers, Sequences, FiniteSets, TLC

VARIABLES
    params,                  \* the node's parameter overrides read by main
    size_t_bits,             \* width of size_t in the build (32 or 64)
    running,                 \* FALSE once an exception has left main or a callback
    debug,
    use_opencv_coords,
    theshold_block_size,
    theshold_block_size_min,
    theshold_block_size_max,
    calibrated,
    calibration,             \* 3x3 intrinsics, row major, as a sequence of 9
    distortion,              \* 1x5 distortion coefficients
    known,                   \* vector<ArucoMarkerInfo>
    event,                   \* the message (inputs) consumed by the last step
    markers,                 \* onFrame: result of ArucoDetector::getMarkers
    projected,               \* onFrame: image points of the correspondence set
    world,                   \* onFrame: world points of the correspondence set
    pub_visible,             \* messages published by the last step, per topic
    pub_position,
    pub_rotation,
    pub_pose

vars == << params, size_t_bits, running, debug, use_opencv_coords,
           theshold_block_size, theshold_block_size_min, theshold_block_size_max,
           calibrated, calibration, distortion, known, event, markers,
           projected, world, pub_visible, pub_position, pub_rotation, pub_pose >>

----------------------------------------------------------------------------
(* Bounds of the model. *)

\* Marker ids range over 0..MaxId (static "marker<i>" parameters, runtime
\* registrations, removals and detected candidates).
MaxId == 1

\* At most MaxMarkers candidates are returned by the detector for one frame.
MaxMarkers == 2

\* Configured block size bounds range over 1..MaxBlock; the debug key 'w'
\* stops raising the block size above MaxBlock + 2.
MaxBlock == 6

Ids == 0..MaxId

----------------------------------------------------------------------------
(* Strings. *)

Min(S) == CHOOSE x \in S : \A y \in S : x <= y

\* std::string::npos, the result of a failed find (SIZE_MAX).
npos == -1

\* The value an unsigned int holds after npos is assigned to it (UINT_MAX).
uint_max == -2

Digits == [c \in {"0", "1", "2", "3", "4", "5", "6", "7", "8", "9"} |->
             CASE c = "0" -> 0 [] c = "1" -> 1 [] c = "2" -> 2 [] c = "3" -> 3
               [] c = "4" -> 4 [] c = "5" -> 5 [] c = "6" -> 6 [] c = "7" -> 7
               [] c = "8" -> 8 [] c = "9" -> 9]

\* data.find(delimiter): index (from 0) of the first occurrence, or npos.
find(data, delimiter) ==
    LET hits == { p \in 0..(Len(data) - Len(delimiter)) :
                    SubSeq(data, p + 1, p + Len(delimiter)) = delimiter }
    IN  IF hits = {} THEN npos ELSE Min(hits)

\* data.substr(0, pos), pos an unsigned int.
substr(data, pos) ==
    IF pos = uint_max \/ pos >= Len(data) THEN data ELSE SubSeq(data, 1, pos)

\* data.erase(0, pos + delimiter.length()); the sum is computed in size_t.
erase(data, pos, len) ==
    IF pos = uint_max \/ pos + len >= Len(data) THEN << >>
    ELSE SubSeq(data, pos + len + 1, Len(data))

RECURSIVE DigitPrefix(_)
DigitPrefix(s) ==
    IF s = << >> \/ Head(s) \notin DOMAIN Digits THEN << >>
    ELSE << Head(s) >> \o DigitPrefix(Tail(s))

RECURSIVE DecimalValue(_, _)
DecimalValue(s, acc) ==
    IF s = << >> THEN acc ELSE DecimalValue(Tail(s), 10 * acc + Digits[Head(s)])

\* std::stod(token): optional sign, then the longest run of digits; throws
\* std::invalid_argument when no conversion can be performed.
stod(token) ==
    LET neg  == token # << >> /\ Head(token) = "-"
        body == IF neg THEN Tail(token) ELSE token
        ds   == DigitPrefix(body)
    IN  IF ds = << >> THEN [threw |-> TRUE, value |-> 0]
        ELSE [threw |-> FALSE,
              value |-> IF neg THEN 0 - DecimalValue(ds, 0) ELSE DecimalValue(ds, 0)]

\* The loop condition (pos = data.find(delimiter)) != string::npos: the
\* find result is narrowed to unsigned int and widened again for the
\* comparison with npos, so a failed find compares equal to npos only
\* where size_t is as wide as unsigned int.
ToUnsignedInt(found) == IF found = npos THEN uint_max ELSE found

DiffersFromNpos(pos, bits) == ~(pos = uint_max /\ bits = 32)

\* stringToDoubleArray(data, values, count, delimiter).  values is the
\* caller's array on entry (1-based here); the result carries the array on
\* return and whether stod threw.
RECURSIVE stringToDoubleArrayLoop(_, _, _, _, _, _)
stringToDoubleArrayLoop(data, values, k, count, delimiter, bits) ==
    LET pos == ToUnsignedInt(find(data, delimiter))
    IN  IF ~(DiffersFromNpos(pos, bits) /\ k < count)
        THEN [threw |-> FALSE, values |-> values]
        ELSE LET d == stod(substr(data, pos))
             IN  IF d.threw THEN [threw |-> TRUE, values |-> values]
                 ELSE stringToDoubleArrayLoop(erase(data, pos, Len(delimiter)),
                                              [values EXCEPT ![k + 1] = d.value],
                                              k + 1, count, delimiter, bits)

stringToDoubleArray(data, values, count, delimiter, bits) ==
    stringToDoubleArrayLoop(data, values, 0, count, delimiter, bits)

----------------------------------------------------------------------------
(* Data. *)

\* double data_calibration[9]; the fractional parts of the test camera's
\* focal length and principal point are dropped.
data_calibration == << 570, 0, 319, 0, 570, 239, 0, 0, 1 >>

\* double data_distortion[5].
data_distortion == << 0, 0, 0, 0, 0 >>

\* Contents an uninitialised double[n] on main's stack may hold when read:
\* one indeterminate value g in every element.
Indeterminate == {0, 1}

UninitArray(n, g) == [i \in 1..n |-> g]

\* ArucoMarkerInfo(id, size, position, rotation): the attributes and the
\* four world corners derived from them, in the detector's corner order.
ArucoMarkerInfo(id, size, position, rotation) ==
    [world |-> [k \in 1..4 |-> [size |-> size, position |-> position,
                                rotation |-> rotation, corner |-> k - 1]],
     id |-> id, size |-> size, position |-> position, rotation |-> rotation]

\* An ArucoMarker returned by the detector as the n-th candidate of a frame:
\* its decoded id and its four image corners.
ArucoMarker(n, id) ==
    [projected |-> [k \in 1..4 |-> [corner |-> k - 1, quad |-> n]], id |-> id]

----------------------------------------------------------------------------
(* Coordinate conventions. *)

\* main, use_opencv_coords false: Point3d(-values[2], -values[3], -values[1]).
InputPosition(v) == << 0 - v[2], 0 - v[3], 0 - v[1] >>

\* main, use_opencv_coords false: Point3d(-values[5], -values[6], values[4]).
InputRotation(v) == << 0 - v[2], 0 - v[3], v[1] >>

\* onFrame, use_opencv_coords false: x = at(2), y = -at(0), z = -at(1).
OutputConversion(v) == << v[3], 0 - v[1], 0 - v[2] >>

----------------------------------------------------------------------------
(* main, up to rclcpp::spin. *)

\* Initial threshold block size.
mainBlockSize(min, max) ==
    LET mid == (min + max) \div 2
    IN  IF mid % 2 = 0 THEN mid + 1 ELSE mid

\* Camera intrinsic calibration parameters ("calibration").
mainCalibration(data, g, bits) ==
    IF data # << >>
    THEN LET r == stringToDoubleArray(data, UninitArray(9, g), 9, << "_" >>, bits)
         IN  IF r.threw
             THEN [calibration |-> data_calibration, threw |-> TRUE, set |-> FALSE]
             ELSE [calibration |-> r.values, threw |-> FALSE, set |-> TRUE]
    ELSE [calibration |-> data_calibration, threw |-> FALSE, set |-> FALSE]

\* Camera distortion calibration parameters ("distortion"): the block
\* declares a new, empty string data and parses that one.
mainDistortion(data, g, bits) ==
    IF data # << >>
    THEN LET inner == << >>
             r == stringToDoubleArray(inner, UninitArray(5, g), 5, << "_" >>, bits)
         IN  IF r.threw
             THEN [distortion |-> data_distortion, threw |-> TRUE, set |-> FALSE]
             ELSE [distortion |-> r.values, threw |-> FALSE, set |-> TRUE]
    ELSE [distortion |-> data_distortion, threw |-> FALSE, set |-> FALSE]

\* One static marker: the values array after parsing "marker<i>".
mainMarkerValues(data, g, bits) ==
    stringToDoubleArray(data, UninitArray(7, g), 7, << "_" >>, bits)

\* The entry pushed for marker i from its values array.
mainMarkerInfo(i, values, opencv) ==
    IF opencv
    THEN ArucoMarkerInfo(i, values[1], << values[2], values[3], values[4] >>,
                         << values[5], values[6], values[7] >>)
    ELSE ArucoMarkerInfo(i, values[1],
                         InputPosition(<< values[2], values[3], values[4] >>),
                         InputRotation(<< values[5], values[6], values[7] >>))

\* Aruco markers passed as parameters: the loop over i, from i upwards,
\* with the list built so far.  (The node loops to 1023; ids are bounded.)
RECURSIVE mainMarkers(_, _, _, _, _, _, _)
mainMarkers(i, list, vals, marker, g, bits, opencv) ==
    IF i > MaxId THEN [known |-> list, threw |-> FALSE, values |-> vals]
    ELSE IF marker[i] = << >>
    THEN mainMarkers(i + 1, list, vals, marker, g, bits, opencv)
    ELSE LET r == mainMarkerValues(marker[i], g, bits)
         IN  IF r.threw THEN [known |-> list, threw |-> TRUE, values |-> vals]
             ELSE mainMarkers(i + 1,
                              Append(list, mainMarkerInfo(i, r.values, opencv)),
                              [vals EXCEPT ![i] = r.values],
                              marker, g, bits, opencv)

\* The globals when main reaches spin, or when an exception leaves main.
main(p, bits, gc, gd, gm) ==
    LET c  == mainCalibration(p.calibration, gc, bits)
        d  == IF c.threw THEN [distortion |-> data_distortion, threw |-> TRUE, set |-> FALSE]
              ELSE mainDistortion(p.distortion, gd, bits)
        m  == IF d.threw THEN [known |-> << >>, threw |-> TRUE,
                               values |-> [i \in Ids |-> << >>]]
              ELSE mainMarkers(0, << >>, [i \in Ids |-> << >>], p.marker, gm, bits,
                               p.use_opencv_coords)
    IN  [running |-> ~m.threw,
         debug |-> p.debug,
         use_opencv_coords |-> p.use_opencv_coords,
         theshold_block_size |-> mainBlockSize(p.theshold_block_size_min,
                                               p.theshold_block_size_max),
         theshold_block_size_min |-> p.theshold_block_size_min,
         theshold_block_size_max |-> p.theshold_block_size_max,
         calibrated |-> (p.calibrated \/ c.set \/ d.set),
         calibration |-> c.calibration,
         distortion |-> d.distortion,
         known |-> m.known,
         values |-> m.values]

----------------------------------------------------------------------------
(* Inputs: parameter overrides, messages, detector and solver results. *)

\* "marker<i>" as size_x_y_z_rx_ry_rz.
MarkerString == << "1", "_", "1", "_", "2", "_", "0", "_", "0", "_", "1", "_", "2" >>

\* "calibration" as nine fields.
CalibrationString ==
    << "5", "_", "0", "_", "3", "_", "0", "_", "5", "_", "2", "_", "0", "_", "0", "_", "1" >>

\* "distortion" as five fields.
DistortionString == << "1", "_", "0", "_", "0", "_", "0", "_", "0" >>

\* The parameter defaults of main, with a narrow block size range.
BaseParams ==
    [debug |-> FALSE, use_opencv_coords |-> FALSE,
     theshold_block_size_min |-> 3, theshold_block_size_max |-> 3,
     calibrated |-> FALSE, calibration |-> << >>, distortion |-> << >>,
     marker |-> [i \in Ids |-> << >>]]

\* Overrides of the threshold controller's parameters and of debug.
ThresholdParams ==
    { [BaseParams EXCEPT !.debug = dbg, !.theshold_block_size_min = mn,
                         !.theshold_block_size_max = mx] :
        dbg \in BOOLEAN, mn \in 1..MaxBlock, mx \in 1..MaxBlock }

\* Overrides of the coordinate flag.
FrameParams ==
    { [BaseParams EXCEPT !.use_opencv_coords = cv] : cv \in BOOLEAN }

\* Overrides of the coordinate flag and of the static marker list
\* ("marker0" .. "marker<n>" given, for each n).
MarkerParams ==
    { [BaseParams EXCEPT !.use_opencv_coords = cv,
                         !.marker = [i \in Ids |-> IF i <= n THEN MarkerString ELSE << >>]] :
        cv \in BOOLEAN, n \in -1..MaxId }

\* Overrides of the camera model.
CameraParams ==
    { [BaseParams EXCEPT !.calibrated = cal, !.calibration = c, !.distortion = d] :
        cal \in BOOLEAN, c \in {<< >>, CalibrationString},
        d \in {<< >>, DistortionString} }

Params == FrameParams \cup ThresholdParams \cup MarkerParams \cup CameraParams

\* sensor_msgs::msg::CameraInfo: k (9 values) and d (5 values).
CameraInfos ==
    { [k |-> << 500, 0, 320, 0, 500, 240, 0, 0, 1 >>, d |-> << 1, 0, 0, 0, 0 >>],
      [k |-> << 600, 0, 300, 0, 600, 200, 0, 0, 1 >>, d |-> << 0, 0, 0, 0, 0 >>] }

\* aruco::msg::Marker: id, size, posx..posz, rotx..rotz.
Placements ==
    { [pos |-> << 1, 2, 0 >>, size |-> 1, rot |-> << 0, 1, 2 >>],
      [pos |-> << 0, 0, 3 >>, size |-> 2, rot |-> << 0, 0, 0 >>] }

MarkerMsgs(ids, placements) ==
    { [pos |-> a.pos, id |-> i, size |-> a.size, rot |-> a.rot] :
        i \in ids, a \in placements }

\* Results of ArucoDetector::getMarkers: up to MaxMarkers candidates, each
\* with an id.
RECURSIVE IdSeqs(_, _)
IdSeqs(ids, n) ==
    IF n = 0 THEN { << >> }
    ELSE IdSeqs(ids, n - 1) \cup
         { Append(s, i) : s \in { t \in IdSeqs(ids, n - 1) : Len(t) = n - 1 }, i \in ids }

Detections(ids, n) ==
    { [c \in 1..Len(s) |-> ArucoMarker(c, s[c])] : s \in IdSeqs(ids, n) }

\* Results of solvePnP followed by the inversion to camera coordinates: the
\* value solvePnP returns, and camera_position and camera_rotation.
Solutions ==
    { [ok |-> TRUE,  camera_position |-> << 0, 0, 0 >>, camera_rotation |-> << 0, 0, 0 >>],
      [ok |-> TRUE,  camera_position |-> << 1, 2, 3 >>, camera_rotation |-> << 0, 1, 0 >>],
      [ok |-> FALSE, camera_position |-> << 9, 9, 9 >>, camera_rotation |-> << 9, 9, 9 >>] }

NoSolution == [ok |-> FALSE, camera_position |-> << >>, camera_rotation |-> << >>]

\* Keys waitKey(1) may return in the debug window: none, 'w', 's', or a key
\* bound to another parameter ('q' for the cosine limit).
Keys == {"none", "w", "s", "q"}

----------------------------------------------------------------------------
(* Initial state: the process when main calls spin. *)

Init ==
    \E p \in Params, bits \in {32, 64}, gc \in Indeterminate,
       gd \in Indeterminate, gm \in Indeterminate :
        LET m == main(p, bits, gc, gd, gm)
        IN  /\ params = p
            /\ size_t_bits = bits
            /\ running = m.running
            /\ debug = m.debug
            /\ use_opencv_coords = m.use_opencv_coords
            /\ theshold_block_size = m.theshold_block_size
            /\ theshold_block_size_min = m.theshold_block_size_min
            /\ theshold_block_size_max = m.theshold_block_size_max
            /\ calibrated = m.calibrated
            /\ calibration = m.calibration
            /\ distortion = m.distortion
            /\ known = m.known
            /\ event = [values |-> m.values, type |-> "main"]
            /\ markers = << >>
            /\ projected = << >>
            /\ world = << >>
            /\ pub_visible = << >>
            /\ pub_position = << >>
            /\ pub_rotation = << >>
            /\ pub_pose = << >>

----------------------------------------------------------------------------
(* onFrame. *)

\* Slip: the block size is advanced by 4.
AdvanceBlockSize_Step4(size, min, max, found) ==
    IF found = 0
    THEN IF size + 4 > max THEN min ELSE size + 4
    ELSE size

\* Slip: the test for an empty detection result is missing.
AdvanceBlockSize_Always(size, min, max, found) ==
    IF size + 2 > max THEN min ELSE size + 2

\* Slip: the advanced value is never compared with the maximum.
AdvanceBlockSize_NoWrap(size, min, max, found) ==
    IF found = 0 THEN size + 2 ELSE size

\* Slip: the comparison with the maximum is >= instead of >.
AdvanceBlockSize_WrapAtMax(size, min, max, found) ==
    IF found = 0
    THEN IF size + 2 >= max THEN min ELSE size + 2
    ELSE size

\* The block size after the detection pass of a frame.
AdvanceBlockSize(size, min, max, found) ==
    IF found = 0
    THEN IF size + 2 > max THEN min ELSE size + 2
    ELSE size

\* Slip: the comparison of the candidate's id with the entry's is missing.
RECURSIVE MatchKnown_NoCompare(_, _, _)
MatchKnown_NoCompare(marker, list, j) ==
    IF j > Len(list) THEN << >>
    ELSE [k \in 1..4 |-> [world |-> list[j].world[k], image |-> marker.projected[k]]]
         \o MatchKnown_NoCompare(marker, list, j + 1)

\* Slip: the world corners are pushed in the opposite winding order.
RECURSIVE MatchKnown_Reversed(_, _, _)
MatchKnown_Reversed(marker, list, j) ==
    IF j > Len(list) THEN << >>
    ELSE (IF marker.id = list[j].id
          THEN [k \in 1..4 |-> [world |-> list[j].world[5 - k], image |-> marker.projected[k]]]
          ELSE << >>) \o MatchKnown_Reversed(marker, list, j + 1)

\* The inner loop over known for one candidate: the (image, world) point
\* pairs it contributes, from entry j on.
RECURSIVE MatchKnown(_, _, _)
MatchKnown(marker, list, j) ==
    IF j > Len(list) THEN << >>
    ELSE (IF marker.id = list[j].id
          THEN [k \in 1..4 |-> [world |-> list[j].world[k], image |-> marker.projected[k]]]
          ELSE << >>) \o MatchKnown(marker, list, j + 1)

\* The outer loop over markers, from candidate i on.
RECURSIVE MatchMarkers(_, _, _)
MatchMarkers(ms, list, i) ==
    IF i > Len(ms) THEN << >>
    ELSE MatchKnown(ms[i], list, 1) \o MatchMarkers(ms, list, i + 1)

\* Slip: the branch on angle > 0.0 is missing, the division is always done.
Quaternion_NoBranch(r) ==
    LET sq == r[1] * r[1] + r[2] * r[2] + r[3] * r[3]
    IN  [divided |-> TRUE, axis |-> r, angle_sq |-> sq, w |-> "cos(angle/2)"]

\* Axis-angle to quaternion: the branch taken and the operands; on the
\* angle > 0 branch the vector part is axis * sin(angle/2)/angle and
\* w = cos(angle/2), with angle = sqrt(angle_sq).
Quaternion(r) ==
    LET sq == r[1] * r[1] + r[2] * r[2] + r[3] * r[3]
    IN  IF sq > 0
        THEN [divided |-> TRUE, axis |-> r, angle_sq |-> sq, w |-> "cos(angle/2)"]
        ELSE [divided |-> FALSE, axis |-> << 0, 0, 0 >>, angle_sq |-> 0, w |-> "1"]

\* The debug window's key handling of the block size.
KeyBlockSize(size, key) ==
    IF key = "w" THEN size + 2
    ELSE IF key = "s" /\ size > 3 THEN size - 2
    ELSE size

\* Slip: the block size is advanced for the empty result of a frame that
\* could not be decoded.
onFrame_DetectBeforeDecode(msg) ==
    /\ running
    /\ event' = [type |-> "frame", msg |-> msg]
    /\ UNCHANGED << params, size_t_bits, running, debug, use_opencv_coords,
                    theshold_block_size_min, theshold_block_size_max,
                    calibrated, calibration, distortion, known >>
    /\ IF ~msg.decoded
       THEN \* cv_bridge::Exception: caught, logged, frame skipped
            /\ theshold_block_size' =
                   AdvanceBlockSize(theshold_block_size, theshold_block_size_min,
                                    theshold_block_size_max, 0)
            /\ markers' = << >>
            /\ projected' = << >>
            /\ world' = << >>
            /\ pub_visible' = << >>
            /\ pub_position' = << >>
            /\ pub_rotation' = << >>
            /\ pub_pose' = << >>
       ELSE LET advanced == AdvanceBlockSize(theshold_block_size, theshold_block_size_min,
                                             theshold_block_size_max, Len(msg.markers))
                pairs == MatchMarkers(msg.markers, known, 1)
                position == IF use_opencv_coords THEN msg.solution.camera_position
                            ELSE OutputConversion(msg.solution.camera_position)
                rotation == IF use_opencv_coords THEN msg.solution.camera_rotation
                            ELSE OutputConversion(msg.solution.camera_rotation)
            IN  /\ markers' = msg.markers
                /\ projected' = [n \in 1..Len(pairs) |-> pairs[n].image]
                /\ world' = [n \in 1..Len(pairs) |-> pairs[n].world]
                /\ IF Len(pairs) > 0
                   THEN /\ pub_position' = << position >>
                        /\ pub_rotation' = << rotation >>
                        /\ pub_pose' = << [position |-> position, frame_id |-> "aruco",
                                           orientation |-> Quaternion(rotation)] >>
                   ELSE /\ pub_position' = << >>
                        /\ pub_rotation' = << >>
                        /\ pub_pose' = << >>
                /\ pub_visible' = << [data |-> Len(pairs) # 0] >>
                /\ theshold_block_size' =
                       IF debug THEN KeyBlockSize(advanced, msg.key) ELSE advanced

onFrame(msg) ==
    /\ running
    /\ event' = [type |-> "frame", msg |-> msg]
    /\ UNCHANGED << params, size_t_bits, running, debug, use_opencv_coords,
                    theshold_block_size_min, theshold_block_size_max,
                    calibrated, calibration, distortion, known >>
    /\ IF ~msg.decoded
       THEN \* cv_bridge::Exception: caught, logged, frame skipped
            /\ UNCHANGED theshold_block_size
            /\ markers' = << >>
            /\ projected' = << >>
            /\ world' = << >>
            /\ pub_visible' = << >>
            /\ pub_position' = << >>
            /\ pub_rotation' = << >>
            /\ pub_pose' = << >>
       ELSE LET advanced == AdvanceBlockSize(theshold_block_size, theshold_block_size_min,
                                             theshold_block_size_max, Len(msg.markers))
                pairs == MatchMarkers(msg.markers, known, 1)
                position == IF use_opencv_coords THEN msg.solution.camera_position
                            ELSE OutputConversion(msg.solution.camera_position)
                rotation == IF use_opencv_coords THEN msg.solution.camera_rotation
                            ELSE OutputConversion(msg.solution.camera_rotation)
            IN  /\ markers' = msg.markers
                /\ projected' = [n \in 1..Len(pairs) |-> pairs[n].image]
                /\ world' = [n \in 1..Len(pairs) |-> pairs[n].world]
                /\ IF Len(pairs) > 0
                   THEN /\ pub_position' = << position >>
                        /\ pub_rotation' = << rotation >>
                        /\ pub_pose' = << [position |-> position, frame_id |-> "aruco",
                                           orientation |-> Quaternion(rotation)] >>
                   ELSE /\ pub_position' = << >>
                        /\ pub_rotation' = << >>
                        /\ pub_pose' = << >>
                /\ pub_visible' = << [data |-> Len(pairs) # 0] >>
                /\ theshold_block_size' =
                       IF debug THEN KeyBlockSize(advanced, msg.key) ELSE advanced

\* A frame arrives: undecodable, or decodable with the candidates the
\* detector returns (ids in ids, at most n), the solver's result when there
\* is a match, and the key waitKey reads when the debug window is open (the
\* block size is capped for 'w').
FrameArrives(ids, n) ==
    \/ onFrame([markers |-> << >>, key |-> "none", decoded |-> FALSE,
                solution |-> NoSolution])
    \/ \E ms \in Detections(ids, n) :
         \E sol \in (IF MatchMarkers(ms, known, 1) = << >>
                     THEN {NoSolution} ELSE Solutions) :
           \E key \in (IF ~debug THEN {"none"}
                       ELSE IF theshold_block_size <= MaxBlock THEN Keys
                       ELSE Keys \ {"w"}) :
             onFrame([markers |-> ms, key |-> key, decoded |-> TRUE, solution |-> sol])

----------------------------------------------------------------------------
(* onCameraInfo, onMarkerRegister, onMarkerRemove. *)

Quiet ==
    /\ markers' = << >>
    /\ projected' = << >>
    /\ world' = << >>
    /\ pub_visible' = << >>
    /\ pub_position' = << >>
    /\ pub_rotation' = << >>
    /\ pub_pose' = << >>

\* Slip: the if(!calibrated) guard is missing.
onCameraInfo_NoLatch(msg) ==
    /\ running
    /\ event' = [type |-> "camera_info", msg |-> msg]
    /\ calibrated' = TRUE
    /\ calibration' = msg.k
    /\ distortion' = msg.d
    /\ markers' = << >>
    /\ projected' = << >>
    /\ world' = << >>
    /\ pub_visible' = << >>
    /\ pub_position' = << >>
    /\ pub_rotation' = << >>
    /\ pub_pose' = << >>
    /\ UNCHANGED << params, size_t_bits, running, debug, use_opencv_coords,
                    theshold_block_size, theshold_block_size_min,
                    theshold_block_size_max, known >>

onCameraInfo(msg) ==
    /\ running
    /\ event' = [type |-> "camera_info", msg |-> msg]
    /\ IF ~calibrated
       THEN /\ calibrated' = TRUE
            /\ calibration' = msg.k
            /\ distortion' = msg.d
       ELSE UNCHANGED << calibrated, calibration, distortion >>
    /\ Quiet
    /\ UNCHANGED << params, size_t_bits, running, debug, use_opencv_coords,
                    theshold_block_size, theshold_block_size_min,
                    theshold_block_size_max, known >>

\* Slip: the matching entry is found but not erased.
EraseFirst_Skip(list, id) == list

\* Slip: known.erase(known.begin()) instead of known.begin() + i.
EraseFirst_Front(list, id) ==
    IF \E j \in 1..Len(list) : list[j].id = id THEN Tail(list) ELSE list

\* The loop "find the first entry with this id, erase it, break".
RECURSIVE EraseFirst(_, _)
EraseFirst(list, id) ==
    IF list = << >> THEN << >>
    ELSE IF Head(list).id = id THEN Tail(list)
    ELSE << Head(list) >> \o EraseFirst(Tail(list), id)

\* Slip: an existing entry is kept and the new one dropped.
onMarkerRegister_KeepOld(msg) ==
    /\ running
    /\ event' = [type |-> "register", msg |-> msg]
    /\ known' = IF \E j \in 1..Len(known) : known[j].id = msg.id THEN known
                ELSE Append(known, ArucoMarkerInfo(msg.id, msg.size, msg.pos, msg.rot))
    /\ markers' = << >>
    /\ projected' = << >>
    /\ world' = << >>
    /\ pub_visible' = << >>
    /\ pub_position' = << >>
    /\ pub_rotation' = << >>
    /\ pub_pose' = << >>
    /\ UNCHANGED << params, size_t_bits, running, debug, use_opencv_coords,
                    theshold_block_size, theshold_block_size_min,
                    theshold_block_size_max, calibrated, calibration, distortion >>

\* Slip: the last entry is dropped instead of the one found.
onMarkerRemove_PopBack(msg) ==
    /\ running
    /\ event' = [type |-> "remove", msg |-> msg]
    /\ known' = IF \E j \in 1..Len(known) : known[j].id = msg.data
                THEN SubSeq(known, 1, Len(known) - 1) ELSE known
    /\ Quiet
    /\ UNCHANGED << params, size_t_bits, running, debug, use_opencv_coords,
                    theshold_block_size, theshold_block_size_min,
                    theshold_block_size_max, calibrated, calibration, distortion >>

onMarkerRegister(msg) ==
    /\ running
    /\ event' = [type |-> "register", msg |-> msg]
    /\ known' = Append(EraseFirst(known, msg.id),
                       ArucoMarkerInfo(msg.id, msg.size, msg.pos, msg.rot))
    /\ Quiet
    /\ UNCHANGED << params, size_t_bits, running, debug, use_opencv_coords,
                    theshold_block_size, theshold_block_size_min,
                    theshold_block_size_max, calibrated, calibration, distortion >>

onMarkerRemove(msg) ==
    /\ running
    /\ event' = [type |-> "remove", msg |-> msg]
    /\ known' = EraseFirst(known, msg.data)
    /\ Quiet
    /\ UNCHANGED << params, size_t_bits, running, debug, use_opencv_coords,
                    theshold_block_size, theshold_block_size_min,
                    theshold_block_size_max, calibrated, calibration, distortion >>

----------------------------------------------------------------------------
(* rclcpp::spin: one callback at a time, each run to completion. *)

\* The callbacks, for messages about the marker ids in ids, with up to n
\* candidates per frame, registrations at the given placements and the
\* given calibration messages.
Spin(ids, n, placements, infos) ==
    \/ FrameArrives(ids, n)
    \/ \E msg \in infos : onCameraInfo(msg)
    \/ \E msg \in MarkerMsgs(ids, placements) : onMarkerRegister(msg)
    \/ \E i \in ids : onMarkerRemove([data |-> i])

OnePlacement == { a \in Placements : a.size = 1 }
OneCameraInfo == { m \in CameraInfos : m.d[1] = 1 }

\* The node with either coordinate flag, under frames with any candidates.
\* (No string is parsed, so one width of size_t stands for both.)
InitFrames == Init /\ params \in FrameParams /\ size_t_bits = 64
Next == Spin(Ids, MaxMarkers, OnePlacement, OneCameraInfo)
Spec == InitFrames /\ [][Next]_vars

\* The node with a static marker list, under any registry commands.
InitRegistry == Init /\ params \in MarkerParams
NextRegistry == Spin(Ids, 1, Placements, OneCameraInfo)
SpecRegistry == InitRegistry /\ [][NextRegistry]_vars

\* The node with any block size bounds, with and without the debug window.
InitThreshold == Init /\ params \in ThresholdParams /\ size_t_bits = 64
NextThreshold == Spin({0}, 1, OnePlacement, OneCameraInfo)
SpecThreshold == InitThreshold /\ [][NextThreshold]_vars

\* The node with any camera model overrides.
InitCamera == Init /\ params \in CameraParams
NextCamera == Spin({0}, 1, OnePlacement, CameraInfos)
SpecCamera == InitCamera /\ [][NextCamera]_vars

----------------------------------------------------------------------------
(* The executor of rclcpp::spin, with onMarkerRegister in its two steps. *)

\* Slip: callbacks are dispatched from several threads, whether or not one
\* is in progress.
ExecutorIdle_MultiThreaded == TRUE

\* spin(node) takes the next message only when the callback it called has
\* returned; the one callback that is in progress between two steps here is
\* onMarkerRegister.
ExecutorIdle == event.type # "registering"

\* onMarkerRegister up to the end of its loop: the entry with the message's
\* id, if there is one, has been erased.
RegisterErase(msg) ==
    /\ running
    /\ event' = [type |-> "registering", msg |-> msg,
                 replaced |-> \E j \in 1..Len(known) : known[j].id = msg.id]
    /\ known' = EraseFirst(known, msg.id)
    /\ Quiet
    /\ UNCHANGED << params, size_t_bits, running, debug, use_opencv_coords,
                    theshold_block_size, theshold_block_size_min,
                    theshold_block_size_max, calibrated, calibration, distortion >>

\* onMarkerRegister from known.push_back to its return.
RegisterPush ==
    /\ running
    /\ event.type = "registering"
    /\ event' = [type |-> "register", msg |-> event.msg]
    /\ known' = Append(known, ArucoMarkerInfo(event.msg.id, event.msg.size,
                                              event.msg.pos, event.msg.rot))
    /\ Quiet
    /\ UNCHANGED << params, size_t_bits, running, debug, use_opencv_coords,
                    theshold_block_size, theshold_block_size_min,
                    theshold_block_size_max, calibrated, calibration, distortion >>

\* The node with a static marker list; a callback starts when the executor
\* is idle.
NextSteps ==
    \/ ExecutorIdle /\ FrameArrives(Ids, 1)
    \/ ExecutorIdle /\ \E msg \in OneCameraInfo : onCameraInfo(msg)
    \/ ExecutorIdle /\ \E msg \in MarkerMsgs(Ids, Placements) : RegisterErase(msg)
    \/ RegisterPush
    \/ ExecutorIdle /\ \E i \in Ids : onMarkerRemove([data |-> i])
SpecSteps == InitRegistry /\ [][NextSteps]_vars

----------------------------------------------------------------------------
(* The node under a camera that keeps publishing frames. *)

\* The camera topic keeps delivering images and spin keeps calling onFrame
\* for them.
FramesKeepArriving == WF_vars(FrameArrives({0}, 1))
SpecSearch == InitThreshold /\ [][NextThreshold]_vars /\ FramesKeepArriving

----------------------------------------------------------------------------
(* Properties. *)

IsOdd(n) == n % 2 = 1

DecodedFrame(e) == e.type = "frame" /\ e.msg.decoded

\* The positions in list of the entries with this id.
Positions(list, id) == { j \in 1..Len(list) : list[j].id = id }

\* The entries of list with this id.
Entries(list, id) == { list[j] : j \in Positions(list, id) }

BlockSizeOddInRange ==
    /\ IsOdd(theshold_block_size)
    /\ theshold_block_size_min <= theshold_block_size
    /\ theshold_block_size <= theshold_block_size_max

\* C1 as stated: for every pair of bounds min <= max, the block size is odd
\* and within [min, max] in the state main computes and after any sequence
\* of onFrame calls.
C1_AnyBounds ==
    (theshold_block_size_min <= theshold_block_size_max) => BlockSizeOddInRange

\* C1, amended: for every pair of bounds 1 <= min <= max with min odd, and
\* with the debug window off, the block size is odd and within [min, max] in
\* the state main computes and after any sequence of onFrame calls.
C1_BlockSizeOddInRange ==
    (/\ 1 <= theshold_block_size_min
     /\ theshold_block_size_min <= theshold_block_size_max
     /\ IsOdd(theshold_block_size_min)
     /\ ~debug)
    => BlockSizeOddInRange

\* A zero-candidate frame has wrapped the block size of a proper odd range
\* back to the minimum.
C1_Witness ==
    /\ DecodedFrame(event)
    /\ markers = << >>
    /\ ~debug
    /\ IsOdd(theshold_block_size_min)
    /\ theshold_block_size_min + 2 < theshold_block_size_max
    /\ theshold_block_size = theshold_block_size_min

\* The block size the Adaptive Threshold Controller prescribes after a frame
\* with the given number of candidates.
Prescribed(size, candidates) ==
    IF candidates = 0
    THEN IF size + 2 > theshold_block_size_max
         THEN theshold_block_size_min ELSE size + 2
    ELSE size

\* C2 as stated: one onFrame step on a decoded frame moves the block size to
\* old+2 (or to min past max) when there are zero candidates and leaves it
\* alone when there is at least one.
C2_EveryFrame ==
    [][DecodedFrame(event')
       => theshold_block_size' = Prescribed(theshold_block_size, Len(markers'))]_vars

\* C2, amended: the same, for every frame in which the debug window does
\* not read a 'w' or 's' key.
C2_FrameStep ==
    [][(DecodedFrame(event') /\ ~(debug /\ event'.msg.key \in {"w", "s"}))
       => theshold_block_size' = Prescribed(theshold_block_size, Len(markers'))]_vars

\* A frame whose candidates match no registered marker has been processed.
C2_Witness ==
    /\ DecodedFrame(event)
    /\ markers # << >>
    /\ world = << >>
    /\ theshold_block_size_min < theshold_block_size_max
    /\ theshold_block_size = mainBlockSize(theshold_block_size_min, theshold_block_size_max)

\* C3: the list known holds at most one entry per id.
C3_UniqueIds ==
    \A i, j \in 1..Len(known) : known[i].id = known[j].id => i = j

\* A registration arrived for an id while every id of the static list was
\* in the registry, and the registry still has one entry per id.
C3_Witness ==
    /\ event.type = "register"
    /\ \A i \in Ids : params.marker[i] # << >>
    /\ Len(known) = Cardinality(Ids)

\* C4: after onMarkerRegister the registry holds exactly one entry for the
\* id, carrying the size, position and orientation of the message; the
\* entries of every other id are as before; the size grows by one when the
\* id was absent and is unchanged when it was present; the node keeps
\* running.
C4_AddOrReplace ==
    [][event'.type = "register"
       => LET m == event'.msg
          IN  /\ Cardinality(Positions(known', m.id)) = 1
              /\ \A e \in Entries(known', m.id) :
                    e.size = m.size /\ e.position = m.pos /\ e.rotation = m.rot
              /\ \A i \in Ids \ {m.id} : Entries(known', i) = Entries(known, i)
              /\ Len(known') = IF Positions(known, m.id) = {}
                               THEN Len(known) + 1 ELSE Len(known)
              /\ running']_vars

\* A registration with the second placement has produced a full registry
\* in a node whose static list already named every id.
C4_Witness ==
    /\ event.type = "register"
    /\ event.msg.size = 2
    /\ \A i \in Ids : params.marker[i] # << >>
    /\ Len(known) = Cardinality(Ids)

\* The list without the entries of this id, order kept.
RECURSIVE Without(_, _)
Without(list, id) ==
    IF list = << >> THEN << >>
    ELSE (IF Head(list).id = id THEN << >> ELSE << Head(list) >>)
         \o Without(Tail(list), id)

\* C5: onMarkerRemove removes the entry of the id and nothing else; it
\* leaves the registry as it is when the id is absent; and a second removal
\* of the same id gives the same registry as the first.
C5_Remove ==
    [][event'.type = "remove"
       => LET id == event'.msg.data
          IN  /\ known' = Without(known, id)
              /\ (Positions(known, id) = {} => known' = known)
              /\ EraseFirst(known', id) = known'
              /\ running']_vars

\* A removal has taken one entry out of a registry that started with every
\* id of the static list.
C5_Witness ==
    /\ event.type = "remove"
    /\ \A i \in Ids : params.marker[i] # << >>
    /\ Len(known) = Cardinality(Ids) - 1
    /\ Positions(known, event.msg.data) = {}

\* No onCameraInfo message has been applied: main left calibrated set, or
\* calibrated is still clear.
NoMessageApplied ==
    \/ params.calibrated \/ params.calibration # << >> \/ params.distortion # << >>
    \/ ~calibrated

DefaultCamera == calibration = data_calibration /\ distortion = data_distortion

\* The latch: a message received while calibrated is false writes the
\* whole camera model and sets calibrated; once calibrated, nothing changes
\* the camera model or clears the flag.
Latch ==
    /\ (event'.type = "camera_info" /\ ~calibrated)
       => (calibration' = event'.msg.k /\ distortion' = event'.msg.d /\ calibrated')
    /\ calibrated
       => (calibration' = calibration /\ distortion' = distortion /\ calibrated')

\* C6 as stated: the latch, and the camera model equals the built-in
\* defaults as long as no calibration message has been applied.
C6_DefaultsUntilMessage ==
    [][Latch /\ (NoMessageApplied' => DefaultCamera')]_vars

\* C6, amended: the latch, and the camera model equals the built-in
\* defaults as long as no calibration message has been applied and main
\* was given neither a calibration nor a distortion override.
C6_Latch ==
    [][/\ Latch
       /\ (/\ NoMessageApplied'
           /\ params.calibration = << >>
           /\ params.distortion = << >>) => DefaultCamera']_vars

\* A calibration message has been ignored by a node that had latched a
\* different one.
C6_Witness ==
    /\ event.type = "camera_info"
    /\ calibrated
    /\ ~NoMessageApplied
    /\ calibration # event.msg.k
    /\ calibration # data_calibration

\* Some candidate of the frame has an id that is in the registry.
SomeCandidateKnown ==
    \E n \in 1..Len(markers) : Positions(known, markers[n].id) # {}

\* C7: for every decoded frame the visibility signal is published exactly
\* once, it is true exactly when some candidate's id is in the registry,
\* and no position, rotation or pose is published when it is false.
C7_Visible ==
    DecodedFrame(event)
    => /\ Len(pub_visible) = 1
       /\ pub_visible[1].data <=> SomeCandidateKnown
       /\ ~pub_visible[1].data
          => (pub_position = << >> /\ pub_rotation = << >> /\ pub_pose = << >>)
       /\ (pub_position # << >> \/ pub_rotation # << >> \/ pub_pose # << >>)
          => pub_visible[1].data

\* A frame with one registered and one unregistered candidate has been
\* reported visible, with one position, rotation and pose.
C7_Witness ==
    /\ DecodedFrame(event)
    /\ \E n \in 1..Len(markers) : Positions(known, markers[n].id) = {}
    /\ SomeCandidateKnown
    /\ pub_visible = << [data |-> TRUE] >>
    /\ Len(pub_position) = 1 /\ Len(pub_rotation) = 1 /\ Len(pub_pose) = 1

\* C8 as stated: for each marker of the static list (use_opencv_coords
\* false), the output conversion applied to the stored position and to the
\* stored orientation gives back the vectors main read from the parameter.
C8_RoundTrip ==
    (event.type = "main" /\ ~use_opencv_coords)
    => \A i \in Ids : \A e \in Entries(known, i) :
          LET v == event.values[i]
          IN  /\ OutputConversion(e.position) = << v[2], v[3], v[4] >>
              /\ OutputConversion(e.rotation) = << v[5], v[6], v[7] >>

\* The (candidate, entry) pairs with equal ids.
IdMatches ==
    { p \in (1..Len(markers)) \X (1..Len(known)) : markers[p[1]].id = known[p[2]].id }

\* C9: the two correspondence sequences have the same length, four times
\* the number of (candidate, entry) id matches, and at every index they hold
\* the same corner of one matched candidate and its registry entry.
C9_Correspondences ==
    /\ Len(projected) = Len(world)
    /\ Len(world) = 4 * Cardinality(IdMatches)
    /\ Len(world) % 4 = 0
    /\ \A n \in 1..Len(world) :
          \E p \in IdMatches, k \in 1..4 :
             /\ projected[n] = markers[p[1]].projected[k]
             /\ world[n] = known[p[2]].world[k]

\* A frame with two matched candidates of different ids has built eight
\* correspondences.
C9_Witness ==
    /\ DecodedFrame(event)
    /\ Len(markers) = 2
    /\ markers[1].id # markers[2].id
    /\ Len(world) = 8
    /\ Len(projected) = 8

\* C10 as stated: when solvePnP fails on a frame with a matched marker, no
\* position, rotation or pose is published, the frame is reported not
\* visible, and the node keeps running.
C10_SolverFailure ==
    (DecodedFrame(event) /\ world # << >> /\ ~event.msg.solution.ok)
    => /\ pub_position = << >>
       /\ pub_rotation = << >>
       /\ pub_pose = << >>
       /\ pub_visible = << [data |-> FALSE] >>
       /\ running

\* C11: a frame that cannot be decoded publishes nothing, leaves the block
\* size, the registry and the camera model as they are, and the node keeps
\* running.
C11_SkippedFrame ==
    [][(event'.type = "frame" /\ ~event'.msg.decoded)
       => /\ pub_visible' = << >> /\ pub_position' = << >>
          /\ pub_rotation' = << >> /\ pub_pose' = << >>
          /\ theshold_block_size' = theshold_block_size
          /\ known' = known
          /\ calibration' = calibration
          /\ distortion' = distortion
          /\ calibrated' = calibrated
          /\ running']_vars

\* An undecodable frame has been skipped by a calibrated node with a
\* registered marker.
C11_Witness ==
    /\ event.type = "frame"
    /\ ~event.msg.decoded
    /\ known # << >>
    /\ calibrated
    /\ pub_visible = << >>

\* C12 as stated: a marker registered at runtime is stored with the
\* position and orientation main would store for the same values in the
\* static list, for either value of use_opencv_coords.
C12_SameStorage ==
    event.type = "register"
    => LET m == event.msg
           values == << m.size, m.pos[1], m.pos[2], m.pos[3],
                        m.rot[1], m.rot[2], m.rot[3] >>
       IN  \A e \in Entries(known, m.id) :
              /\ e.position = mainMarkerInfo(m.id, values, use_opencv_coords).position
              /\ e.rotation = mainMarkerInfo(m.id, values, use_opencv_coords).rotation

\* The numbers in the fields of an underscore-separated string of unsigned
\* integers, in order.
RECURSIVE Fields(_)
Fields(data) ==
    IF data = << >> THEN << >>
    ELSE LET cut == Min({ p \in 1..(Len(data) + 1) :
                            p = Len(data) + 1 \/ data[p] = "_" })
         IN  << DecimalValue(SubSeq(data, 1, cut - 1), 0) >>
             \o (IF cut > Len(data) THEN << >>
                 ELSE Fields(SubSeq(data, cut + 1, Len(data))))

\* Intrinsics and distortion are both the built-in defaults, no source of
\* calibration having been given.
EntirelyDefault ==
    /\ DefaultCamera
    /\ NoMessageApplied
    /\ params.calibration = << >>
    /\ params.distortion = << >>

\* Intrinsics and distortion both come from a calibration source: one
\* calibration message, or the two inline overrides.
EntirelyCalibrated ==
    \/ /\ ~NoMessageApplied
       /\ \E msg \in CameraInfos : calibration = msg.k /\ distortion = msg.d
    \/ /\ params.calibration # << >>
       /\ params.distortion # << >>
       /\ calibration = Fields(params.calibration)
       /\ distortion = Fields(params.distortion)

\* C13 as stated: in every state of the running node the camera model is
\* either entirely default or entirely calibrated.
C13_WholeCameraModel ==
    running => (EntirelyDefault \/ EntirelyCalibrated)

\* C14: a published rotation vector of exactly (0, 0, 0) gives the pose
\* orientation (0, 0, 0, 1) without a division, and the division by the
\* angle is done only for an angle greater than zero.
C14_ZeroRotation ==
    \A n \in 1..Len(pub_pose) :
        LET q == pub_pose[n].orientation
        IN  /\ pub_rotation[n] = << 0, 0, 0 >>
               => (~q.divided /\ q.axis = << 0, 0, 0 >> /\ q.w = "1")
            /\ q.divided => q.angle_sq > 0

\* A pose has been published for a rotation vector of exactly zero.
C14_Witness ==
    /\ DecodedFrame(event)
    /\ Len(pub_pose) = 1
    /\ pub_rotation = << << 0, 0, 0 >> >>
    /\ pub_pose[1].orientation.w = "1"

\* C15 as stated: parsing a string of exactly count fields stores all count
\* values in order, the last field included; here for the seven fields of
\* each static marker parsed by main.
C15_AllFieldsStored ==
    event.type = "main"
    => \A i \in Ids :
          params.marker[i] # << >> => event.values[i] = Fields(params.marker[i])

\* The step whose event is e read a 'w' or 's' key in the debug window.
KeyAdjusts(e) == debug /\ DecodedFrame(e) /\ e.msg.key \in {"w", "s"}

\* The step is a decoded frame with no candidates and moves the block size
\* to its successor.
ZeroCandidateTransition ==
    /\ DecodedFrame(event')
    /\ markers' = << >>
    /\ theshold_block_size' = Prescribed(theshold_block_size, 0)

\* C16 as stated: in every step of any callback, with any debug setting and
\* any key, the block size changes only by the zero-candidate transition.
C16_OnlyZeroCandidates ==
    [][theshold_block_size' # theshold_block_size => ZeroCandidateTransition]_vars

\* C16, amended: the same for every step except a frame in which the debug
\* window reads a 'w' or 's' key.
C16_OnlyZeroCandidatesOrKey ==
    [][(theshold_block_size' # theshold_block_size /\ ~KeyAdjusts(event'))
       => ZeroCandidateTransition]_vars

\* With the debug window open and another key read, a frame without
\* candidates has wrapped the block size to the minimum.
C16_Witness ==
    /\ DecodedFrame(event)
    /\ debug
    /\ event.msg.key = "q"
    /\ markers = << >>
    /\ theshold_block_size_min + 2 <= theshold_block_size_max
    /\ theshold_block_size = theshold_block_size_min

\* The event e is a registration or a removal naming id i.
Names(e, i) ==
    \/ e.type = "register" /\ e.msg.id = i
    \/ e.type = "remove" /\ e.msg.data = i

\* C17: the entry of a registered marker (id, size, position, orientation,
\* world corners) is unchanged by every frame, every calibration message
\* and every registration or removal that names another id.
C17_EntryStable ==
    [][\A i \in Ids :
          ~Names(event', i) => Entries(known', i) = Entries(known, i)]_vars

\* Marker 1 of the static list has been removed while marker 0 stays
\* registered.
C17_Witness ==
    /\ event.type = "remove"
    /\ event.msg.data = 1
    /\ params.marker[1] # << >>
    /\ Positions(known, 1) = {}
    /\ Positions(known, 0) # {}

\* C18 as stated: when main is given a non-empty distortion override (and
\* no calibration override), startup completes, the five distortion
\* coefficients are the built-in defaults and the override does not mark
\* the camera model calibrated.
C18_OverrideIgnored ==
    (event.type = "main" /\ params.distortion # << >> /\ params.calibration = << >>)
    => /\ running
       /\ distortion = data_distortion
       /\ calibrated = params.calibrated

ZeroCandidates == event.type = "frame" => (event.msg.decoded /\ markers = << >>)

\* v is an odd value within the configured bounds.
OddInBounds(v) ==
    /\ IsOdd(v)
    /\ theshold_block_size_min <= v
    /\ v <= theshold_block_size_max

\* C20 as stated: if from some point on every frame yields zero candidates,
\* the block size equals every odd value of [min, max] again and again.
C20_EveryOddValue ==
    \A v \in 1..MaxBlock :
        <>[]ZeroCandidates => []<>(OddInBounds(v) => theshold_block_size = v)

\* C20, amended: the same for an odd min >= 1 with the debug window off.
C20_EveryOddValueOddMin ==
    \A v \in 1..MaxBlock :
        <>[]ZeroCandidates
        => []<>((/\ OddInBounds(v)
                 /\ 1 <= theshold_block_size_min
                 /\ IsOdd(theshold_block_size_min)
                 /\ ~debug) => theshold_block_size = v)

\* With an odd min, at least three values in the range and the debug window
\* off, a frame without candidates has brought the block size to max.
C20_Witness ==
    /\ DecodedFrame(event)
    /\ markers = << >>
    /\ ~debug
    /\ IsOdd(theshold_block_size_min)
    /\ IsOdd(theshold_block_size_max)
    /\ theshold_block_size_min + 4 <= theshold_block_size_max
    /\ theshold_block_size = theshold_block_size_max

====
